---- MODULE Spec2Model ----
(***************************************************************************)
(* Worker pool with groups (negasus/wpool).                                *)
(*                                                                         *)
(* The repository holds two variants of the pool:                          *)
(*   "wpool_go" : src/wpool.go            (workers count themselves)       *)
(*   "part_001" : src/unnamed/part_001    (dispatch counts, then spawns)   *)
(* The variable impl selects the variant; everything else is shared.       *)
(*                                                                         *)
(* Every atomic operation and every channel operation of the code is one   *)
(* step.  Workers are anonymous goroutines: they are kept in a bag of      *)
(* records, one record per live goroutine.                                 *)
(***************************************************************************)
EXTENDS Integers, Sequences, FiniteSets, Bags, TLC

\* ---------------------------------------------------------------- bounds
NumOwners == 2
MaxTasks == 2
MaxLimitMax == 1
MaxLimitMin == 1
MaxChanSize == 2

Owners == 1..NumOwners
\* the requests: the k-th Go call of a run submits k, as the tests do
Reqs == 1..MaxTasks
Impls == {"wpool_go", "part_001"}
\* the accumulator passed to Wait: a slice that already holds a value (0 is no
\* response of the handler)
Accs == {<<0>>}
\* the contexts passed to Wait: one that never ends, one with a deadline
Ctxs == {"never", "pending"}
\* the task objects that acquireTask can hand out
TaskIds == 1..MaxTasks

VARIABLES
    impl,                     \* which source file is running
    workersLimitMax,          \* Pool.workersLimitMax
    workersLimitMin,          \* Pool.workersLimitMin
    groupResponseChannelSize, \* Pool.groupResponseChannelSize
    poolKeeps,                \* sync.Pool of this run: TRUE keeps what is Put, FALSE drops it
    workersCount,             \* Pool.workersCount
    workers,                  \* bag of live worker goroutines (newWorker frames)
    counter,                  \* Group.counter, per group
    ch,                       \* Group.ch, per group: buffered responses
    pc,                       \* per owner: where its Go / Wait call stands
    t,                        \* per owner: request of the task its Go is dispatching
    ctx,                      \* per owner: state of the context given to Wait
    acc,                      \* per owner: the dest argument of the running Wait
    dest,                     \* per owner: dest as accumulated by the running Wait
    ret,                      \* the return of Wait made by the last step, if it was one
    sent,                     \* per group: bag of requests ever submitted by Go
    got,                      \* per group: bag of responses ever received by Wait
    fireMark,                 \* per owner: the responses in dest and in g.ch when the deadline fired
    groupAt,                  \* per Group object: not made yet, with its caller, in Pool.groupsPool, or garbage
    tasksPool,                \* Pool.tasksPool: the task objects put back
    taskObj                   \* per request in flight: the task object that carries it (0: none)

vars == <<impl, workersLimitMax, workersLimitMin, groupResponseChannelSize, poolKeeps,
          workersCount, workers, counter, ch, pc, t, ctx, acc, dest, ret,
          sent, got, fireMark, groupAt, tasksPool, taskObj>>

config == <<impl, workersLimitMax, workersLimitMin, groupResponseChannelSize, poolKeeps>>
waitVars == <<ctx, acc, dest, fireMark>>
hist == <<sent, got>>
pools == <<groupAt, tasksPool, taskObj>>

\* ------------------------------------------------------------ pure helpers

\* the handler the tests give to New
Handler(r) == r * 2

\* a worker goroutine: g = 0 means it holds no task; host is the owner whose
\* goroutine runs it (wpool.go runs newWorker in the caller at the limit), or 0
Worker(p, g, req, resp, host) ==
    [pc |-> p, g |-> g, req |-> req, resp |-> resp, host |-> host]

One(w) == SetToBag({w})

Live == BagToSet(workers)

\* workers parked in the select of the worker loop, ready to receive a task
IdleWorkers == {w \in Live : w.pc = "idle"}

\* ret when the last step returned from no Wait
NoRet == [o |-> 0, why |-> "none", ctx |-> "none", acc |-> <<>>, val |-> <<>>, mark |-> EmptyBag]

\* ret when owner o's Wait(c, a) returned v; why tells which return statement,
\* m is fireMark
Return(o, why, c, a, v, m) ==
    [o |-> o, why |-> why, ctx |-> c, acc |-> a, val |-> v, mark |-> m]

\* number of Go calls made so far, by all owners
Issued == LET Sum[S \in SUBSET Owners] ==
                  IF S = {} THEN 0
                  ELSE LET o == CHOOSE x \in S : TRUE
                       IN BagCardinality(sent[o]) + Sum[S \ {o}]
          IN Sum[Owners]

Copies(w, n) == [x \in {w} |-> n]

\* the bag of the elements of a sequence
SeqToBag(q) ==
    LET vals == {q[i] : i \in DOMAIN q}
    IN [v \in vals |-> Cardinality({i \in DOMAIN q : q[i] = v})]

\* ------------------------------------------------------------------- Init

\* New: the options are stored; WorkersLimitMin goroutines are started, and
\* part_001 counts them before they run
InitPool(i) ==
    /\ impl = i
    /\ workersLimitMax \in 0..MaxLimitMax
    /\ workersLimitMin \in 0..MaxLimitMin
    /\ groupResponseChannelSize \in 1..MaxChanSize
    /\ workersCount = IF impl = "part_001" THEN workersLimitMin ELSE 0
    /\ workers = IF workersLimitMin > 0
                 THEN Copies(Worker("start", 0, 0, 0, 0), workersLimitMin)
                 ELSE EmptyBag
    /\ counter = [g \in Owners |-> 0]
    /\ ch = [g \in Owners |-> <<>>]
    /\ pc = [o \in Owners |-> "idle"]
    /\ t = [o \in Owners |-> 0]
    /\ ctx = [o \in Owners |-> "none"]
    /\ acc = [o \in Owners |-> <<>>]
    /\ dest = [o \in Owners |-> <<>>]
    /\ ret = NoRet
    /\ sent = [g \in Owners |-> EmptyBag]
    /\ got = [g \in Owners |-> EmptyBag]
    /\ fireMark = [o \in Owners |-> EmptyBag]
    /\ tasksPool = {}
    /\ taskObj = [r \in Reqs |-> 0]

\* every caller has acquired its Group from the new pool and keeps it
GroupsAcquired == groupAt = [g \in Owners |-> "caller"]

\* no Group has been made yet: the callers go through AcquireGroup
NoGroupYet == groupAt = [g \in Owners |-> "unborn"]

\* a sync.Pool may drop any object put into it (it does at garbage
\* collections): in these runs it keeps none
Init == InitPool("part_001") /\ GroupsAcquired /\ poolKeeps = FALSE

InitWpoolGo == InitPool("wpool_go") /\ GroupsAcquired /\ poolKeeps = FALSE

\* in these runs the sync.Pools keep what is put into them
InitGroups == InitPool("part_001") /\ NoGroupYet /\ poolKeeps = TRUE

\* ------------------------------------------------- conditions of the code

\* slips of the limit test: one worker too many; the unset limit forgotten
UnderLimitOffByOne(count) == workersLimitMax <= 0 \/ count <= workersLimitMax + 1

UnderLimitIgnoresUnset(count) == count <= workersLimitMax

\* Pool.task of part_001: "the worker max limit is not set, or we did not exceed it"
UnderLimit(count) == workersLimitMax <= 0 \/ count <= workersLimitMax

\* Pool.task of wpool.go: "workers limit is not set"
NoLimit == workersLimitMax <= 0

\* Pool.task of wpool.go: the loaded count is below the limit
BelowLimit(count) == count < workersLimitMax

\* a slip of the retirement test: >= for >
MayRetireAtMin(count) == count >= workersLimitMin

\* newWorker, timer case: the loaded count allows this worker to stop
MayRetire(count) == count > workersLimitMin

\* a Wait without the test of counter = 0
NothingToWaitNever(g) == FALSE

\* Group.Wait of part_001 returns at once on counter = 0; wpool.go has no such test
NothingToWait(g) == impl = "part_001" /\ counter[g] = 0

\* a slip of the test of the decrement: the last response is not waited for
AllCollectedOffByOne(c) == c <= 1

\* Group.Wait: the decrement reached zero
AllCollected(c) == c = 0

\* a channel that takes a value whatever it holds
HasRoomAlways(g) == TRUE

\* a channel made one slot short
HasRoomOffByOne(g) == Len(ch[g]) + 1 < groupResponseChannelSize

\* a send on Group.ch goes through when the buffer has room
HasRoom(g) == Len(ch[g]) < groupResponseChannelSize

\* the worker w with the task (g, req) received from the task channel
Receives(w, g, req) == [w EXCEPT !.pc = "busy", !.g = g, !.req = req]

\* the task objects that a submission in flight refers to
TasksInUse == {taskObj[r] : r \in Reqs} \ {0}

\* acquireTask with the one task object shared by all callers
FreshTaskShared(req) == CHOOSE x \in TaskIds : \A y \in TaskIds : x <= y

\* acquireTask, "&task[Req, Resp]{}": a new object, named by the request
\* that made it
FreshTask(req) == req

\* acquireTask: tasksPool.Get() gives some object of the pool or nil, and
\* on nil a new object is made
AcquirableTasks(req) == tasksPool \cup {FreshTask(req)}

\* sync.Pool.Put(x)
Put(pool, x) == IF poolKeeps THEN pool \cup {x} ELSE pool

\* ---------------------------------------------- AcquireGroup, ReleaseGroup

\* the Group objects groupsPool.Get() can give: one of the pool, or nil, and
\* on nil a Group is made (the next object not made yet)
AcquirableGroups ==
    {g \in Owners : groupAt[g] = "groupsPool"}
        \cup {g \in Owners : groupAt[g] = "unborn"
                                /\ \A h \in Owners : groupAt[h] = "unborn" => g <= h}

\* AcquireGroup: a caller gets the Group g
AcquireGroup(g) ==
    /\ g \in AcquirableGroups
    /\ groupAt' = [groupAt EXCEPT ![g] = "caller"]
    /\ ret' = NoRet
    /\ UNCHANGED <<config, tasksPool, taskObj, workersCount, workers, counter, ch,
                   pc, t, waitVars, hist>>

\* a ReleaseGroup that puts the Group back whatever its counter
GroupIsIdleAlways(g) == TRUE

\* ReleaseGroup: LoadInt64(&g.counter) == 0
GroupIsIdle(g) == counter[g] = 0

\* ReleaseGroup, called by the caller of g between its calls of Go and Wait:
\* the Group goes to groupsPool when its counter is 0, and is left to the
\* garbage collector otherwise; its caller does not use it again
ReleaseGroup(g) ==
    /\ groupAt[g] = "caller"
    /\ pc[g] = "idle"
    /\ groupAt' = [groupAt EXCEPT ![g] = IF GroupIsIdle(g) /\ poolKeeps
                                         THEN "groupsPool" ELSE "garbage"]
    /\ ret' = NoRet
    /\ UNCHANGED <<config, tasksPool, taskObj, workersCount, workers, counter, ch,
                   pc, t, waitVars, hist>>

\* ------------------------------------------------------------ Group.Go

\* a Go that does not count its task in Group.counter
GoCallUncounted(o, req) ==
    /\ groupAt[o] = "caller"
    /\ pc[o] = "idle"
    /\ Issued < MaxTasks
    /\ req = Issued + 1
    /\ counter' = counter
    /\ t' = [t EXCEPT ![o] = req]
    /\ pc' = [pc EXCEPT ![o] = "dispatch"]
    /\ \E x \in AcquirableTasks(req) :
         /\ taskObj' = [taskObj EXCEPT ![req] = x]
         /\ tasksPool' = tasksPool \ {x}
    /\ sent' = [sent EXCEPT ![o] = @ (+) One(req)]
    /\ ret' = NoRet
    /\ UNCHANGED <<config, groupAt, workersCount, workers, ch, waitVars, got>>

\* Go: counter++, a task is taken and filled, Pool.task is entered
GoCall(o, req) ==
    /\ groupAt[o] = "caller"
    /\ pc[o] = "idle"
    /\ Issued < MaxTasks
    /\ req = Issued + 1
    /\ counter' = [counter EXCEPT ![o] = @ + 1]
    /\ t' = [t EXCEPT ![o] = req]
    /\ pc' = [pc EXCEPT ![o] = "dispatch"]
    /\ \E x \in AcquirableTasks(req) :
         /\ taskObj' = [taskObj EXCEPT ![req] = x]
         /\ tasksPool' = tasksPool \ {x}
    /\ sent' = [sent EXCEPT ![o] = @ (+) One(req)]
    /\ ret' = NoRet
    /\ UNCHANGED <<config, groupAt, workersCount, workers, ch, waitVars, got>>

\* Pool.task, select case "w.tasks <- t": a worker parked in its select takes the task
TrySend(o) ==
    /\ pc[o] = "dispatch"
    /\ \E w \in IdleWorkers :
         workers' = (workers (-) One(w)) (+) One(Receives(w, o, t[o]))
    /\ pc' = [pc EXCEPT ![o] = "idle"]
    /\ t' = [t EXCEPT ![o] = 0]
    /\ ret' = NoRet
    /\ UNCHANGED <<config, pools, workersCount, counter, ch, waitVars, hist>>

\* a select that takes "default" although a worker is ready to receive
SelectDefaultAnyway(o) ==
    /\ impl = "part_001"
    /\ pc[o] = "dispatch"
    /\ pc' = [pc EXCEPT ![o] = "incr"]
    /\ ret' = NoRet
    /\ UNCHANGED <<config, pools, workersCount, workers, counter, ch, t, waitVars, hist>>

\* Pool.task of part_001, select case "default": no worker is parked
SelectDefault(o) ==
    /\ impl = "part_001"
    /\ pc[o] = "dispatch"
    /\ IdleWorkers = {}
    /\ pc' = [pc EXCEPT ![o] = "incr"]
    /\ ret' = NoRet
    /\ UNCHANGED <<config, pools, workersCount, workers, counter, ch, t, waitVars, hist>>

\* part_001: count := AddInt64(&workersCount, 1), then the test of the limit
IncrWorkers(o) ==
    /\ pc[o] = "incr"
    /\ workersCount' = workersCount + 1
    /\ pc' = [pc EXCEPT ![o] = IF UnderLimit(workersCount') THEN "spawn" ELSE "rollback"]
    /\ ret' = NoRet
    /\ UNCHANGED <<config, pools, workers, counter, ch, t, waitVars, hist>>

\* go w.newWorker(t): a goroutine is started with the task; Go returns
Spawn(o) ==
    /\ pc[o] = "spawn"
    /\ workers' = workers (+) One(Worker("start", o, t[o], 0, 0))
    /\ pc' = [pc EXCEPT ![o] = "idle"]
    /\ t' = [t EXCEPT ![o] = 0]
    /\ ret' = NoRet
    /\ UNCHANGED <<config, pools, workersCount, counter, ch, waitVars, hist>>

\* a dispatch over the limit that does not take its increment back
RollbackForgotten(o) ==
    /\ pc[o] = "rollback"
    /\ pc' = [pc EXCEPT ![o] = "blocked"]
    /\ ret' = NoRet
    /\ UNCHANGED <<config, pools, workersCount, workers, counter, ch, t, waitVars, hist>>

\* part_001 over the limit: AddInt64(&workersCount, -1)
Rollback(o) ==
    /\ pc[o] = "rollback"
    /\ workersCount' = workersCount - 1
    /\ pc' = [pc EXCEPT ![o] = "blocked"]
    /\ ret' = NoRet
    /\ UNCHANGED <<config, pools, workers, counter, ch, t, waitVars, hist>>

\* part_001 over the limit: the blocking "w.tasks <- t" meets a parked worker
BlockedSend(o) ==
    /\ pc[o] = "blocked"
    /\ \E w \in IdleWorkers :
         workers' = (workers (-) One(w)) (+) One(Receives(w, o, t[o]))
    /\ pc' = [pc EXCEPT ![o] = "idle"]
    /\ t' = [t EXCEPT ![o] = 0]
    /\ ret' = NoRet
    /\ UNCHANGED <<config, pools, workersCount, counter, ch, waitVars, hist>>

\* Pool.task of wpool.go, select case "default": no worker is parked; without a
\* limit a worker is spawned, with one the count is loaded next
SelectDefaultWpoolGo(o) ==
    /\ impl = "wpool_go"
    /\ pc[o] = "dispatch"
    /\ IdleWorkers = {}
    /\ pc' = [pc EXCEPT ![o] = IF NoLimit THEN "spawn" ELSE "load"]
    /\ ret' = NoRet
    /\ UNCHANGED <<config, pools, workersCount, workers, counter, ch, t, waitVars, hist>>

\* wpool.go: LoadInt64(&workersCount) < workersLimitMax
LoadWorkers(o) ==
    /\ pc[o] = "load"
    /\ pc' = [pc EXCEPT ![o] = IF BelowLimit(workersCount) THEN "spawn" ELSE "sync"]
    /\ ret' = NoRet
    /\ UNCHANGED <<config, pools, workersCount, workers, counter, ch, t, waitVars, hist>>

\* wpool.go at the limit: w.newWorker(t) runs in the caller, Go returns when it does
SyncWorker(o) ==
    /\ pc[o] = "sync"
    /\ workers' = workers (+) One(Worker("start", o, t[o], 0, o))
    /\ pc' = [pc EXCEPT ![o] = "inworker"]
    /\ t' = [t EXCEPT ![o] = 0]
    /\ ret' = NoRet
    /\ UNCHANGED <<config, pools, workersCount, counter, ch, waitVars, hist>>

\* ---------------------------------------------------------- Group.Wait

\* Wait is called: part_001 returns dest at once when counter = 0, otherwise
\* (and always in wpool.go) the call enters its select loop
WaitCall(o, c, a) ==
    /\ groupAt[o] = "caller"
    /\ pc[o] = "idle"
    /\ IF NothingToWait(o)
       THEN /\ ret' = Return(o, "nowait", c, a, a, EmptyBag)
            /\ UNCHANGED <<pc, ctx, acc, dest>>
       ELSE /\ pc' = [pc EXCEPT ![o] = "waiting"]
            /\ ctx' = [ctx EXCEPT ![o] = c]
            /\ acc' = [acc EXCEPT ![o] = a]
            /\ dest' = [dest EXCEPT ![o] = a]
            /\ ret' = NoRet
    /\ UNCHANGED <<config, pools, workersCount, workers, counter, ch, t, fireMark, hist>>

\* the deadline of the context passes: ctx.Done() becomes ready
DeadlineFires(o) ==
    /\ ctx[o] = "pending"
    /\ ctx' = [ctx EXCEPT ![o] = "done"]
    /\ fireMark' = [fireMark EXCEPT ![o] = SeqToBag(dest[o] \o ch[o])]
    /\ ret' = NoRet
    /\ UNCHANGED <<config, pools, workersCount, workers, counter, ch, pc, t, acc, dest, hist>>

\* Wait, select case "<-ctx.Done()": return dest
WaitDeadline(o) ==
    /\ pc[o] = "waiting"
    /\ ctx[o] = "done"
    /\ ret' = Return(o, "deadline", ctx[o], acc[o], dest[o], fireMark[o])
    /\ pc' = [pc EXCEPT ![o] = "idle"]
    /\ ctx' = [ctx EXCEPT ![o] = "none"]
    /\ acc' = [acc EXCEPT ![o] = <<>>]
    /\ dest' = [dest EXCEPT ![o] = <<>>]
    /\ fireMark' = [fireMark EXCEPT ![o] = EmptyBag]
    /\ UNCHANGED <<config, pools, workersCount, workers, counter, ch, t, hist>>

\* dest = append(dest, v)
Collect(d, v) == Append(d, v)

\* Wait, select case "v := <-g.ch": dest = append(dest, v)
WaitRecv(o) ==
    /\ pc[o] = "waiting"
    /\ ch[o] # <<>>
    /\ dest' = [dest EXCEPT ![o] = Collect(@, Head(ch[o]))]
    /\ got' = [got EXCEPT ![o] = @ (+) One(Head(ch[o]))]
    /\ ch' = [ch EXCEPT ![o] = Tail(@)]
    /\ pc' = [pc EXCEPT ![o] = "recvd"]
    /\ ret' = NoRet
    /\ UNCHANGED <<config, pools, workersCount, workers, counter, t, ctx, acc, fireMark, sent>>

\* Wait: AddInt64(&g.counter, -1) == 0 returns dest, otherwise the loop goes on
WaitDec(o) ==
    /\ pc[o] = "recvd"
    /\ counter' = [counter EXCEPT ![o] = @ - 1]
    /\ IF AllCollected(counter'[o])
       THEN /\ ret' = Return(o, "done", ctx[o], acc[o], dest[o], EmptyBag)
            /\ pc' = [pc EXCEPT ![o] = "idle"]
            /\ ctx' = [ctx EXCEPT ![o] = "none"]
            /\ acc' = [acc EXCEPT ![o] = <<>>]
            /\ dest' = [dest EXCEPT ![o] = <<>>]
            /\ fireMark' = [fireMark EXCEPT ![o] = EmptyBag]
       ELSE /\ pc' = [pc EXCEPT ![o] = "waiting"]
            /\ ret' = NoRet
            /\ UNCHANGED <<ctx, acc, dest, fireMark>>
    /\ UNCHANGED <<config, pools, workersCount, workers, ch, t, hist>>

\* --------------------------------------------------------- Pool.newWorker

\* the goroutine starts: wpool.go counts itself here (part_001 was counted by
\* New or by Pool.task); with a task it runs it, without one it enters the loop
WorkerStart ==
    /\ \E w \in Live :
         /\ w.pc = "start"
         /\ workers' = (workers (-) One(w)) (+)
                       One([w EXCEPT !.pc = IF w.g = 0 THEN "park" ELSE "busy"])
    /\ workersCount' = IF impl = "wpool_go" THEN workersCount + 1 ELSE workersCount
    /\ ret' = NoRet
    /\ UNCHANGED <<config, pools, counter, ch, pc, t, waitVars, hist>>

\* resp := w.handler(t.req)
WorkerHandle ==
    /\ \E w \in Live :
         /\ w.pc = "busy"
         /\ workers' = (workers (-) One(w)) (+)
                       One([w EXCEPT !.pc = "send", !.resp = Handler(w.req)])
    /\ ret' = NoRet
    /\ UNCHANGED <<config, pools, workersCount, counter, ch, pc, t, waitVars, hist>>

\* t.ch <- resp; w.releaseTask(t): the task object goes back to tasksPool
WorkerSend ==
    /\ \E w \in Live :
         /\ w.pc = "send"
         /\ HasRoom(w.g)
         /\ ch' = [ch EXCEPT ![w.g] = Append(@, w.resp)]
         /\ tasksPool' = Put(tasksPool, taskObj[w.req])
         /\ taskObj' = [taskObj EXCEPT ![w.req] = 0]
         /\ workers' = (workers (-) One(w)) (+) One(Worker("park", 0, 0, 0, w.host))
    /\ ret' = NoRet
    /\ UNCHANGED <<config, groupAt, workersCount, counter, pc, t, waitVars, hist>>

\* the timer is set (NewTimer after the first task, Reset later) and the worker
\* parks in the select of its loop: from now on a send on w.tasks reaches it
WorkerPark ==
    /\ \E w \in Live :
         /\ w.pc = "park"
         /\ workers' = (workers (-) One(w)) (+) One([w EXCEPT !.pc = "idle"])
    /\ ret' = NoRet
    /\ UNCHANGED <<config, pools, workersCount, counter, ch, pc, t, waitVars, hist>>

\* select case "<-timer.C": the idle timer fired and the worker left the select
WorkerTimer ==
    /\ \E w \in Live :
         /\ w.pc = "idle"
         /\ workers' = (workers (-) One(w)) (+) One([w EXCEPT !.pc = "timeout"])
    /\ ret' = NoRet
    /\ UNCHANGED <<config, pools, workersCount, counter, ch, pc, t, waitVars, hist>>

\* LoadInt64(&workersCount) > workersLimitMin: return, else go on to reset the timer
WorkerCheck ==
    /\ \E w \in Live :
         /\ w.pc = "timeout"
         /\ workers' = (workers (-) One(w)) (+)
                       One([w EXCEPT !.pc = IF MayRetire(workersCount) THEN "exit" ELSE "park"])
    /\ ret' = NoRet
    /\ UNCHANGED <<config, pools, workersCount, counter, ch, pc, t, waitVars, hist>>

\* the deferred AddInt64(&workersCount, -1); the goroutine is gone.  In wpool.go
\* a worker run by a caller returns into that caller's Go
WorkerExit ==
    /\ \E w \in Live :
         /\ w.pc = "exit"
         /\ workers' = workers (-) One(w)
         /\ pc' = IF w.host # 0 THEN [pc EXCEPT ![w.host] = "idle"] ELSE pc
    /\ workersCount' = workersCount - 1
    /\ ret' = NoRet
    /\ UNCHANGED <<config, pools, counter, ch, t, waitVars, hist>>

\* ------------------------------------------------------------------- Next

\* what the caller of a group does: Go and Wait, in any order
Calls ==
    \/ \E o \in Owners, req \in Reqs : GoCall(o, req)
    \/ \E o \in Owners, c \in Ctxs, a \in Accs : WaitCall(o, c, a)
    \/ \E o \in Owners : DeadlineFires(o)

\* the steps of Group.Go and Group.Wait once called
GroupSteps ==
    \/ \E o \in Owners : TrySend(o)
    \/ \E o \in Owners : Spawn(o)
    \/ \E o \in Owners : WaitDeadline(o)
    \/ \E o \in Owners : WaitRecv(o)
    \/ \E o \in Owners : WaitDec(o)

\* the steps of Pool.task that only part_001 has
TaskSteps ==
    \/ \E o \in Owners : SelectDefault(o)
    \/ \E o \in Owners : IncrWorkers(o)
    \/ \E o \in Owners : Rollback(o)
    \/ \E o \in Owners : BlockedSend(o)

\* the steps of Pool.task that only wpool.go has
TaskStepsWpoolGo ==
    \/ \E o \in Owners : SelectDefaultWpoolGo(o)
    \/ \E o \in Owners : LoadWorkers(o)
    \/ \E o \in Owners : SyncWorker(o)

WorkerSteps ==
    \/ WorkerStart
    \/ WorkerHandle
    \/ WorkerSend
    \/ WorkerPark
    \/ WorkerTimer
    \/ WorkerCheck
    \/ WorkerExit

Next == Calls \/ GroupSteps \/ TaskSteps \/ WorkerSteps

NextWpoolGo == Calls \/ GroupSteps \/ TaskStepsWpoolGo \/ WorkerSteps

\* the calls that take a Group from the pool and give it back
GroupCalls ==
    \/ \E g \in Owners : AcquireGroup(g)
    \/ \E g \in Owners : ReleaseGroup(g)

NextGroups == GroupCalls \/ Next

\* the steps of a run in which no idle timer of a worker fires
NextNoTimers ==
    \/ Calls
    \/ GroupSteps
    \/ TaskSteps
    \/ WorkerStart
    \/ WorkerHandle
    \/ WorkerSend
    \/ WorkerPark

\* src/unnamed/part_001
Spec == Init /\ [][Next]_vars

\* src/unnamed/part_001, the Groups acquired from and released to the pool
SpecGroups == InitGroups /\ [][NextGroups]_vars

\* src/unnamed/part_001 within StopWorkerTimeout of the start of its workers
SpecNoTimers == Init /\ [][NextNoTimers]_vars

\* src/wpool.go and src/unnamed/part_001, each from its own initial state
SpecAll == (Init \/ InitWpoolGo) /\ [][Next \/ NextWpoolGo]_vars

\* the steps a caller's goroutine takes by itself inside Go and Wait (all but
\* the blocking send, which needs a worker, and the calls themselves)
Running(o) ==
    \/ TrySend(o)
    \/ SelectDefault(o)
    \/ IncrWorkers(o)
    \/ Spawn(o)
    \/ Rollback(o)
    \/ WaitDeadline(o)
    \/ WaitRecv(o)
    \/ WaitDec(o)

\* the scheduler runs every goroutine that can take a step, timers and
\* deadlines fire, and a sender parked on the task channel is served when
\* workers keep entering their select; callers are free never to call Go or
\* Wait again
Fairness ==
    /\ \A o \in Owners : WF_vars(Running(o))
    /\ \A o \in Owners : SF_vars(BlockedSend(o))
    /\ \A o \in Owners : WF_vars(DeadlineFires(o))
    /\ WF_vars(WorkerStart)
    /\ WF_vars(WorkerHandle)
    /\ WF_vars(WorkerSend)
    /\ WF_vars(WorkerPark)
    /\ WF_vars(WorkerTimer)
    /\ WF_vars(WorkerCheck)
    /\ WF_vars(WorkerExit)

\* src/unnamed/part_001 under a fair scheduler
FairSpec == Spec /\ Fairness

\* ===================================================================
\* Properties
\* ===================================================================

\* the bag of the handler's responses to a bag of requests
Responses(B) ==
    LET Img[S \in SUBSET BagToSet(B)] ==
            IF S = {} THEN EmptyBag
            ELSE LET r == CHOOSE x \in S : TRUE
                 IN Copies(Handler(r), B[r]) (+) Img[S \ {r}]
    IN Img[BagToSet(B)]

\* what a returned Wait appended to its accumulator
Appended == SubSeq(ret.val, Len(ret.acc) + 1, Len(ret.val))

\* the returned slice starts with the accumulator that was passed
KeepsAcc == Len(ret.val) >= Len(ret.acc) /\ SubSeq(ret.val, 1, Len(ret.acc)) = ret.acc

\* owners whose Go has counted itself in workersCount and is about to roll back
RollingBack == {o \in Owners : pc[o] = "rollback"}

\* number of live worker goroutines
LiveWorkers == BagCardinality(workers)

\* number of live workers at the place p of newWorker
At(p) == BagCardinality([w \in {x \in Live : x.pc = p} |-> workers[w]])

C2_NeverBelowMin ==
    [][(workersLimitMin > 0 /\ workersCount >= workersLimitMin)
          => workersCount' >= workersLimitMin]_vars

\* ------------------------------------------------------------------- C4
\* C4: a Wait called on a group whose counter is 0 returns its accumulator
\* unchanged in that very step; it never enters the select loop, where it
\* would wait for the deadline or for a response.
C4_WaitOnIdleGroupReturns ==
    [][\A o \in Owners :
          (pc[o] = "idle" /\ counter[o] = 0 /\ (pc'[o] = "waiting" \/ ret'.o = o))
             => (pc'[o] = "idle" /\ ret'.why = "nowait" /\ ret'.val = ret'.acc)]_vars

\* ------------------------------------------------------------------- C7
\* the steps of a Go call between its entry and its return
GoStep(o) ==
    \/ TrySend(o)
    \/ SelectDefault(o)
    \/ SelectDefaultWpoolGo(o)
    \/ IncrWorkers(o)
    \/ Spawn(o)

\* C7: with no maximum set, a Go call is never at a place where it waits (the
\* rollback and the blocking send of part_001, the load and the worker run in
\* the caller of wpool.go): it is at the handoff attempt, at the increment or
\* at the spawn, and there its next step can always be taken.
C7_GoNeverBlocks ==
    workersLimitMax = 0 =>
        \A o \in Owners :
            /\ pc[o] \in {"idle", "dispatch", "incr", "spawn", "waiting", "recvd"}
            /\ pc[o] \in {"dispatch", "incr", "spawn"} => ENABLED GoStep(o)

\* no maximum, and MaxTasks Go calls have returned: one handed to a parked
\* worker or each with a worker of its own
C7_Witness ==
    /\ workersLimitMax = 0
    /\ Issued = MaxTasks
    /\ \A o \in Owners : pc[o] = "idle"
    /\ LiveWorkers >= 1

\* ------------------------------------------------------------------- C8
\* C8: with a maximum M > 0 and WorkersLimitMin <= M, at most M worker
\* goroutines are live; a Go call whose increment finds workersCount at M or
\* above starts no worker, rolls back and goes to the blocking send.
C8_LiveWorkersAtMostMax ==
    /\ []((workersLimitMax > 0 /\ workersLimitMin <= workersLimitMax)
             => LiveWorkers <= workersLimitMax)
    /\ [][\A o \in Owners :
             /\ (workersLimitMax > 0 /\ pc[o] = "incr" /\ pc'[o] # "incr"
                    /\ workersCount >= workersLimitMax)
                  => (pc'[o] = "rollback" /\ workers' = workers)
             /\ (pc[o] = "rollback" /\ pc'[o] # "rollback")
                  => (pc'[o] = "blocked" /\ workers' = workers)]_vars

\* the pool is full and a Go call is parked in the blocking send
C8_Witness ==
    /\ workersLimitMax > 0
    /\ LiveWorkers = workersLimitMax
    /\ \E o \in Owners : pc[o] = "blocked"

\* ------------------------------------------------------------------- C3
\* the result of a Wait that returned on counter = 0: the accumulator, then
\* the responses to all the requests submitted to the group that no earlier
\* Wait had collected (all N of them when this is the first Wait)
DoneResultOK ==
    LET o == ret.o
        before == got[o] (-) SeqToBag(Appended)
    IN /\ KeepsAcc
       /\ SeqToBag(Appended) \sqsubseteq got[o]
       /\ SeqToBag(Appended) (+) before = Responses(sent[o])
       /\ before = EmptyBag => Len(Appended) = BagCardinality(sent[o])

\* C3: a Wait with a context that never ends, called by the owner after its
\* N >= 1 Go calls have returned, returns; and a Wait that returns because the
\* counter reached 0 returns the accumulator followed by exactly the responses
\* of the handler to the N submitted requests, as a multiset.
C3_WaitCollectsAll ==
    /\ [](ret.why = "done" => DoneResultOK)
    /\ \A o \in Owners :
          (pc[o] = "waiting" /\ ctx[o] = "never") ~> (ret.o = o /\ ret.why = "done")

\* one owner made two Go calls and its single Wait, with a context that
\* never ends, returned both responses
C3_Witness ==
    /\ ret.why = "done"
    /\ ret.ctx = "never"
    /\ BagCardinality(sent[ret.o]) >= 2
    /\ Len(Appended) = BagCardinality(sent[ret.o])
    /\ SeqToBag(Appended) = Responses(sent[ret.o])

\* ------------------------------------------------------------------- C5
\* C5: when Wait returns on "<-ctx.Done()", the returned slice contains every
\* response that was in dest or in the Group's channel when the deadline fired.
C5_DeadlineReturnHasDelivered ==
    ret.why = "deadline" => ret.mark \sqsubseteq SeqToBag(ret.val)

\* ------------------------------------------------------------------- C6
\* the tasks of group g held by worker goroutines
HeldBy(g) == BagCardinality([w \in {x \in Live : x.g = g} |-> workers[w]])

\* the responses of group g delivered so far: collected, or in g.ch
Delivered(g) == BagCardinality(got[g]) + Len(ch[g])

\* the return on "<-ctx.Done()" touches nothing but the Wait's own locals
DeadlineReturnFrame ==
    [][\A o \in Owners :
          (ret'.o = o /\ ret'.why = "deadline")
             => UNCHANGED <<config, pools, workersCount, workers, counter, ch, t, hist>>]_vars

\* at the return on "<-ctx.Done()": the counter is positive and equal to
\* submitted minus collected, every submitted task is delivered or held by a
\* worker, and the result is the accumulator followed by responses of the group
DeadlineReturnOK ==
    ret.why = "deadline" =>
        LET o == ret.o
        IN /\ counter[o] > 0
           /\ counter[o] = BagCardinality(sent[o]) - BagCardinality(got[o])
           /\ BagCardinality(sent[o]) = Delivered(o) + HeldBy(o)
           /\ KeepsAcc
           /\ SeqToBag(Appended) \sqsubseteq Responses(sent[o])

\* a task dispatched by a returned Go stays with its worker until its response
\* is in the Group's channel: no step drops it
TasksKept ==
    \A o \in Owners :
        pc[o] \in {"idle", "waiting", "recvd"}
            => BagCardinality(sent[o]) = Delivered(o) + HeldBy(o)

\* no worker holds a task of group g
AllDelivered(g) == \A w \in Live : w.g # g

\* a worker that holds a task of group g has its response and finds g.ch full
DeliveredOrChannelFull(g) ==
    \A w \in Live : w.g = g => (w.pc = "send" /\ ~HasRoom(g))

\* C6 as stated: the return on the deadline changes nothing, leaves the counter
\* positive and equal to submitted minus collected, returns the accumulator
\* followed by responses of this group only, and after it every dispatched
\* task is processed and its response sent to the Group's channel.
C6_DeadlineLeavesTasksRunning ==
    /\ DeadlineReturnFrame
    /\ []DeadlineReturnOK
    /\ \A o \in Owners : (ret.o = o /\ ret.why = "deadline") ~> AllDelivered(o)

\* C6 amended: as stated, except that a response is sent only when the
\* Group's channel has room: after the return every dispatched task is
\* processed, and its response is sent or its worker stands in the send on
\* the full channel, where it stays until a later Wait receives.
C6_DeadlineLeavesTasksRunningOrBlocked ==
    /\ DeadlineReturnFrame
    /\ []DeadlineReturnOK
    /\ []TasksKept
    /\ \A o \in Owners :
          (ret.o = o /\ ret.why = "deadline") ~> DeliveredOrChannelFull(o)

\* a Wait returned on its deadline with a task of its group still with a worker
C6_Witness ==
    /\ ret.why = "deadline"
    /\ counter[ret.o] > 0
    /\ HeldBy(ret.o) >= 1

\* ------------------------------------------------------------------- C9
\* C9: a Go call parked in the blocking send of part_001 returns.
C9_BlockedGoReturns ==
    \A o \in Owners : (pc[o] = "blocked") ~> (pc[o] = "idle")

\* ------------------------------------------------------------------ C10
\* every task is processed and every response collected
Quiescent ==
    /\ \A o \in Owners : pc[o] = "idle" /\ counter[o] = 0 /\ ch[o] = <<>>
    /\ \A w \in Live : w.g = 0

\* C10: if from some point on every submitted task is processed and collected
\* and no Go call is made, then from some point on WorkersCount() is at most
\* WorkersLimitMin (0 when no minimum is set); and a worker that loads a
\* workersCount not greater than WorkersLimitMin does not go to its exit.
C10_IdleWorkersRetire ==
    /\ (<>[]Quiescent)
          => <>[](/\ workersCount <= workersLimitMin
                  /\ workersLimitMin = 0 => workersCount = 0)
    /\ [][workersCount <= workersLimitMin => At("exit")' <= At("exit")]_vars

\* no minimum: tasks were run by spawned workers, all were collected, and the
\* workers have retired
C10_Witness ==
    /\ workersLimitMin = 0
    /\ Issued >= 1
    /\ Quiescent
    /\ workers = EmptyBag
    /\ workersCount = 0

\* ------------------------------------------------------------------ C11
\* the Group g is as a Group just made: nothing is counted, buffered, in
\* flight or still to be collected
AsNew(g) ==
    /\ counter[g] = 0
    /\ ch[g] = <<>>
    /\ HeldBy(g) = 0
    /\ t[g] = 0
    /\ pc[g] = "idle"
    /\ got[g] = Responses(sent[g])

\* C11: every Group in the free-list, and so every Group that AcquireGroup
\* returns, has counter = 0, an empty channel, no task in flight and no
\* response of an earlier use left to collect; ReleaseGroup puts the Group
\* into the free-list only when its counter is 0, and changes nothing else.
C11_PooledGroupsAreAsNew ==
    /\ [](\A g \in Owners : groupAt[g] = "groupsPool" => AsNew(g))
    /\ [][\A g \in Owners :
             /\ (groupAt[g] # "caller" /\ groupAt'[g] = "caller") => AsNew(g)'
             /\ (groupAt[g] = "caller" /\ groupAt'[g] # "caller")
                  => /\ groupAt'[g] = "groupsPool" => counter[g] = 0
                     /\ counter[g] # 0 => groupAt'[g] = "garbage"
                     /\ UNCHANGED <<config, tasksPool, taskObj, workersCount, workers,
                                    counter, ch, pc, t, waitVars, hist>>]_vars

\* a Group that was used for a task and a Wait is back in the free-list
\* while the other Group is with its caller
C11_Witness ==
    \E g \in Owners :
        /\ groupAt[g] = "groupsPool"
        /\ sent[g] # EmptyBag
        /\ \E h \in Owners : groupAt[h] = "caller"

\* ------------------------------------------------------------------ C12
\* the requests of group g that are submitted and not yet answered: the one
\* in the hands of the caller inside Go, and those with the workers
InFlight(g) ==
    (IF t[g] # 0 THEN One(t[g]) ELSE EmptyBag)
        (+) BagOfAll(LAMBDA w : w.req, [w \in {x \in Live : x.g = g} |-> workers[w]])

\* every request of g has exactly one response, which is collected, in the
\* channel of g, or still to be made by the one holder of the request
AnsweredOnce(g) ==
    Responses(sent[g]) = got[g] (+) SeqToBag(ch[g]) (+) Responses(InFlight(g))

\* a worker that holds a task runs the handler on it once and then sends
HandledOnce ==
    \A w \in Live :
        w.g # 0 => /\ w.pc \in {"start", "busy", "send"}
                   /\ w.resp = IF w.pc = "send" THEN Handler(w.req) ELSE 0

\* a task object carries one submission at a time and is in tasksPool only
\* when it carries none
TaskObjectsApart ==
    /\ \A r1, r2 \in Reqs : (r1 # r2 /\ taskObj[r1] # 0) => taskObj[r1] # taskObj[r2]
    /\ TasksInUse \cap tasksPool = {}
    /\ \A g \in Owners : \A r \in BagToSet(InFlight(g)) : taskObj[r] # 0

\* C12: with several Groups on one Pool, every submitted task is held by one
\* worker, handled once and answered once, in the channel of its own Group;
\* no task object carries two submissions at once.
C12_EachTaskAnsweredOnce ==
    /\ \A g \in Owners : AnsweredOnce(g)
    /\ HandledOnce
    /\ TaskObjectsApart

\* both Groups have submitted, and the second submission is carried by the
\* task object that the first one has put back
C12_Witness ==
    /\ \A g \in Owners : sent[g] # EmptyBag
    /\ \E r \in Reqs : taskObj[r] \notin {0, r}

\* ------------------------------------------------------------------ C13
\* the Go calls that are inside Pool.task
Dispatching ==
    {o \in Owners : pc[o] \in {"dispatch", "incr", "spawn", "rollback", "blocked"}}

\* C13 as stated: with a maximum M set, workersCount is at most M + 1 in every
\* reachable state, whatever the number of callers inside Go.
C13_CountAtMostMaxPlusOne ==
    workersLimitMax > 0 => workersCount <= workersLimitMax + 1

\* C13 amended: with a maximum M set and WorkersLimitMin <= M, workersCount
\* is at most M plus the number of Go calls that are inside Pool.task at the
\* same time: M + 1 with one submitter, M + k with k of them.
C13_CountAtMostMaxPlusSubmitters ==
    (workersLimitMax > 0 /\ workersLimitMin <= workersLimitMax)
        => /\ workersCount <= workersLimitMax + Cardinality(Dispatching)
           /\ Cardinality(Dispatching) <= 1 => workersCount <= workersLimitMax + 1

\* two Go calls have incremented the counter of a full pool and neither has
\* rolled back yet: the counter stands at M + 2
C13_Witness ==
    /\ workersLimitMax > 0
    /\ Cardinality(RollingBack) = 2
    /\ workersCount = workersLimitMax + 2

\* ------------------------------------------------------------------ C14
\* C14: a Go call that finds a worker parked in its select hands the task to
\* a parked worker: no worker is made and workersCount does not change; it
\* goes on to make a worker only when no worker was parked at its handoff
\* attempt, and workers are made by such calls only.
C14_HandoffBeforeSpawn ==
    [][/\ \A o \in Owners :
            (pc[o] = "dispatch" /\ pc'[o] # "dispatch")
               => IF IdleWorkers # {}
                  THEN /\ pc'[o] = "idle"
                       /\ workersCount' = workersCount
                       /\ LiveWorkers' = LiveWorkers
                       /\ \E w \in IdleWorkers :
                             workers' = (workers (-) One(w)) (+) One(Receives(w, o, t[o]))
                  ELSE pc'[o] = "incr"
       /\ LiveWorkers' > LiveWorkers
            => \E o \in Owners : pc[o] = "spawn" /\ pc'[o] = "idle"]_vars

\* no limits, no worker has retired, two Go calls have returned, and there is
\* one worker: the first call made it, the second handed its task to it
C14_Witness ==
    /\ workersLimitMax = 0
    /\ workersLimitMin = 0
    /\ Issued = 2
    /\ \A o \in Owners : pc[o] = "idle"
    /\ LiveWorkers = 1
    /\ workersCount = 1

\* ------------------------------------------------------------------ C15
\* C15: with a minimum m > 0, WorkersCount() is m from the return of New on
\* and in every state in which no task has been submitted yet, whatever
\* number of idle timers have fired.
C15_CountIsMinBeforeFirstTask ==
    (workersLimitMin > 0 /\ Issued = 0) => workersCount = workersLimitMin

\* no task yet, and the idle timer of a worker of the minimum has fired: the
\* worker is at its test of workersCount
C15_Witness ==
    /\ workersLimitMin > 0
    /\ Issued = 0
    /\ At("timeout") >= 1
    /\ workersCount = workersLimitMin

\* ------------------------------------------------------------------ C16
\* the Go calls between their increment of workersCount and the spawn or the
\* rollback that follows it
Counted == {o \in Owners : pc[o] \in {"spawn", "rollback"}}

\* C16: workersCount is never negative, and whenever no Go call is between
\* its increment and the following spawn or rollback, workersCount is the
\* number of workers started and not yet exited.
C16_CountIsLiveWorkers ==
    /\ workersCount >= 0
    /\ Counted = {} => workersCount = LiveWorkers

\* every Go call was made, one of them has rolled back and stands in its
\* blocking send, and the counter is the number of workers again
C16_Witness ==
    /\ Counted = {}
    /\ \E o \in Owners : pc[o] = "blocked"
    /\ LiveWorkers >= 1
    /\ workersCount = LiveWorkers
    /\ Issued = MaxTasks

\* ------------------------------------------------------------------ C17
\* C17: with no maximum and no minimum, when the Wait that follows the N Go
\* calls of the only caller has returned and no idle timer has fired,
\* WorkersCount() is N: each Go call has made a worker of its own.
C17_EveryGoSpawns ==
    \A o \in Owners :
        (/\ workersLimitMax = 0
         /\ workersLimitMin = 0
         /\ ret.o = o
         /\ ret.why = "done"
         /\ Issued = BagCardinality(sent[o]))
            => workersCount = BagCardinality(sent[o])

\* ------------------------------------------------------------------ C18
\* the channel of group g holds groupResponseChannelSize responses
Full(g) == Len(ch[g]) >= groupResponseChannelSize

\* the workers that stand in "t.ch <- resp" on a full channel
Stuck == [w \in {x \in Live : x.pc = "send" /\ Full(x.g)} |-> workers[w]]

\* C18: a worker that stands in the send of its response to a full channel
\* stays there, with its task and without retiring, in every step that does
\* not receive from that channel; a full channel changes only by a receive of
\* the Wait of its Group; and workersCount keeps counting the worker.  Such
\* a worker exists once a Wait has returned on its deadline with more tasks
\* outstanding than the channel holds.
C18_WorkerStuckOnFullChannel ==
    /\ [][\A w \in Live :
             (w.pc = "send" /\ Full(w.g) /\ ch'[w.g] = ch[w.g])
                => CopiesIn(w, workers') >= CopiesIn(w, workers)]_vars
    /\ [][\A g \in Owners :
             (Full(g) /\ ch'[g] # ch[g])
                => (pc[g] = "waiting" /\ pc'[g] = "recvd" /\ ch'[g] = Tail(ch[g]))]_vars
    /\ [](workersCount >= BagCardinality(Stuck))

\* a Wait has returned on its deadline, its Group has more tasks outstanding
\* than its channel holds, the channel is full and a worker stands in the send
C18_Witness ==
    /\ ret.why = "deadline"
    /\ counter[ret.o] > groupResponseChannelSize
    /\ Full(ret.o)
    /\ \E w \in Live : w.pc = "send" /\ w.g = ret.o

\* ------------------------------------------------------------------ C19
\* C19: the counter of a Group is never negative and never less than the
\* number of its tasks not yet answered plus the number of responses in its
\* channel; it is the number of tasks with the workers plus the number of
\* buffered responses whenever its caller is neither inside Go nor, in Wait,
\* between a receive and the decrement.
C19_CounterIsOutstanding ==
    \A g \in Owners :
        /\ counter[g] >= 0
        /\ counter[g] >= BagCardinality(InFlight(g)) + Len(ch[g])
        /\ pc[g] \in {"idle", "waiting"} => counter[g] = HeldBy(g) + Len(ch[g])

\* a Wait has received a response and not yet decremented, a task of its
\* Group is still with a worker: the counter is one above the sum
C19_Witness ==
    \E g \in Owners :
        /\ pc[g] = "recvd"
        /\ HeldBy(g) >= 1
        /\ counter[g] = HeldBy(g) + Len(ch[g]) + 1

\* ------------------------------------------------------------------ C20
\* C20: a worker about to send the response of a task of a Group whose
\* counter does not exceed GroupResponseChannelSize finds room in the
\* Group's channel, whether the caller of the Group is in Wait or not; a
\* worker finds the channel full only when the counter exceeds the capacity.
C20_NoBlockWithinCapacity ==
    \A w \in Live :
        w.pc = "send" =>
            /\ counter[w.g] <= groupResponseChannelSize => HasRoom(w.g)
            /\ ~HasRoom(w.g) => counter[w.g] > groupResponseChannelSize

\* the caller is not in Wait, its Group has as many tasks outstanding as its
\* channel holds, one response is buffered and a worker is about to send
\* the next
C20_Witness ==
    \E w \in Live :
        /\ w.pc = "send"
        /\ pc[w.g] = "idle"
        /\ counter[w.g] = groupResponseChannelSize
        /\ Len(ch[w.g]) = groupResponseChannelSize - 1
        /\ Len(ch[w.g]) >= 1

====
